---- MODULE Spec2Model ----
(***************************************************************************)
(* Model of neo4j_rag.ipynb: a notebook that is run cell by cell.  Every    *)
(* cell is a sequence of blocking remote calls (graph database, embedding  *)
(* service, hosted language model, dataset fetch).  A remote call is a     *)
(* record put into `inflight` when it is sent and taken out when it        *)
(* returns or fails; what the remote side answers is drawn from small      *)
(* sets.                                                                   *)
(***************************************************************************)
EXTENDS Integers, Sequences, FiniteSets, TLC

\* ---------------------------------------------------------------- bounds
NumTasks == 5          \* Task nodes created by the dataset's Task statement
MaxSteps == 3          \* longest agent scratchpad the model explores

\* ------------------------------------------------------ program constants
MaxIterations == 2     \* AgentExecutor(max_iterations=2)
DefaultK == 4          \* documents per lookup when k is not passed

VARIABLES pc, step, running, status, failures, inflight, conns, graph, db,
          import_query, loader, vector_index, sub, agent, response

vars == <<pc, step, running, status, failures, inflight, conns, graph, db,
          import_query, loader, vector_index, sub, agent, response>>

\* ------------------------------------------------------------- notebook
CellOrder ==
    <<"connect", "load", "index", "search", "qa1", "qa2", "count", "refresh",
      "cy1", "cy2", "cy3", "cy4", "agent1", "agent2">>

CellIndex(c) == CHOOSE i \in 1..Len(CellOrder) : CellOrder[i] = c

NextCell(c) ==
    IF CellIndex(c) = Len(CellOrder) THEN "done" ELSE CellOrder[CellIndex(c) + 1]

\* the question each invoking cell passes
Question(c) ==
    CASE c = "search" -> "How will RecommendationService be updated?"
      [] c = "qa1"    -> "How will recommendation service be updated?"
      [] c = "qa2"    -> "How many open tickets are there?"
      [] c = "cy1"    -> "How many open tickets are there?"
      [] c = "cy2"    -> "Which Team has the most open Tasks?"
      [] c = "cy3"    -> "Which services depend on Database directly?"
      [] c = "cy4"    -> "Which services depend on Database indirectly?"
      [] c = "agent1" -> "Which team is assigned to maintain PaymentService?"
      [] c = "agent2" -> "What tasks have optimization in their description?"
      [] OTHER        -> ""

\* kind of wrapper a cell invokes directly
CellKind(c) ==
    CASE c = "search"                       -> "search"
      [] c \in {"qa1", "qa2"}               -> "qa"
      [] c \in {"cy1", "cy2", "cy3", "cy4"} -> "cypher"
      [] OTHER                              -> "none"

\* ---------------------------------------------------------- connections
GraphConn == "graph"                 \* graph = Neo4jGraph(url, username, password)
VectorConn_shared == "graph"
VectorConn == "vector_index"         \* from_existing_graph(url=..., username=..., password=...)

\* ------------------------------------------------- language-model clients
LlamaModel == "llama-3.1-70b-versatile"
GroqDefaultModel == "mixtral-8x7b-32768"   \* ChatGroq() without model_name
GroqDefaultTemperature == "0.7"            \* ChatGroq() without temperature

vector_qa_llm == [model |-> LlamaModel, temperature |-> GroqDefaultTemperature]
cypher_llm == [model |-> LlamaModel, temperature |-> "0"]
qa_llm_llama == [model |-> LlamaModel, temperature |-> "0"]
qa_llm == [model |-> GroqDefaultModel, temperature |-> "0"]
llm == [model |-> LlamaModel, temperature |-> "0"]

\* ------------------------------------------------------------- remote calls
NoLlm == [model |-> "-", temperature |-> "-"]

Call(svc, op, conn, cfg, text, schema, docs, scratchpad) ==
    [svc |-> svc, op |-> op, conn |-> conn, model |-> cfg.model,
     temperature |-> cfg.temperature, text |-> text, schema |-> schema,
     docs |-> docs, scratchpad |-> scratchpad]

DbCall(op, conn, text) == Call("graphdb", op, conn, NoLlm, text, {}, <<>>, <<>>)
EmbedCall(op, text) == Call("embedding", op, "-", NoLlm, text, {}, <<>>, <<>>)
FetchCall(op) == Call("dataset", op, "-", NoLlm, <<>>, {}, <<>>, <<>>)
LlmCall(op, cfg, text, schema, docs, scratchpad) ==
    Call("llm", op, "-", cfg, text, schema, docs, scratchpad)

\* a blocking call: sent, and the caller does nothing until it is taken out
Issue(c) == inflight' = inflight \cup {c}
Complete_leak(c) == inflight' = inflight
Complete(c) == inflight' = inflight \ {c}

Sent(op) == \E c \in inflight : c.op = op
TheCall(op) == CHOOSE c \in inflight : c.op = op

\* ------------------------------------------------------------- the database
\* a node is its label and properties; Null stands for a property the node
\* does not have, NoEmbedding for a node without the embedding property
Null == "<null>"
NoEmbedding == <<>>

EmptyDb ==
    [labels |-> {}, tasks |-> {}, embedded |-> {}, index |-> FALSE,
     nodes |-> [n \in {} |-> Null], rels |-> {}]

\* the dataset definitions the fetch may return: a JSON document whose
\* 'query' member is the bulk query, a list of statements
DatasetDefs ==
    { [query |-> <<"MERGE Microservice", "MERGE Task", "MERGE Team">>],
      [query |-> <<"MERGE Task", "MERGE Team">>] }

LabelOf(stmt) ==
    CASE stmt = "MERGE Microservice" -> "Microservice"
      [] stmt = "MERGE Task"         -> "Task"
      [] stmt = "MERGE Team"         -> "Team"
      [] OTHER                       -> "?"

\* the nodes and relationships the dataset creates for a label
NodeIds(l) ==
    CASE l = "Task"         -> 1..NumTasks
      [] l = "Microservice" -> {101, 102}
      [] l = "Team"         -> {201, 202}
      [] OTHER              -> {}

NodeOf(n) ==
    CASE n \in NodeIds("Task") ->
           [label |-> "Task", name |-> "Task" \o ToString(n),
            description |-> "work on item " \o ToString(n),
            status |-> IF n % 2 = 0 THEN "completed" ELSE "open",
            technology |-> Null, embedding |-> NoEmbedding]
      [] n \in NodeIds("Microservice") ->
           [label |-> "Microservice", name |-> "Service" \o ToString(n),
            description |-> Null, status |-> Null,
            technology |-> "Python", embedding |-> NoEmbedding]
      [] OTHER ->
           [label |-> "Team", name |-> "Team" \o ToString(n),
            description |-> Null, status |-> Null,
            technology |-> Null, embedding |-> NoEmbedding]

RelsOf(ls) ==
    (IF {"Task", "Team"} \subseteq ls
       THEN {[from |-> t, type |-> "ASSIGNED_TO", to |-> 201] : t \in NodeIds("Task")}
       ELSE {})
    \cup (IF {"Microservice", "Team"} \subseteq ls
       THEN {[from |-> m, type |-> "MAINTAINED_BY", to |-> 202] : m \in NodeIds("Microservice")}
       ELSE {})
    \cup (IF "Microservice" \in ls
       THEN {[from |-> 101, type |-> "DEPENDS_ON", to |-> 102]}
       ELSE {})

\* effect of the bulk query on the graph
RunImport(d, q) ==
    LET ls == {LabelOf(q[i]) : i \in 1..Len(q)}
        ids == UNION {NodeIds(l) : l \in ls}
    IN  [d EXCEPT !.labels = d.labels \cup ls,
                  !.tasks = IF "Task" \in ls THEN 1..NumTasks ELSE d.tasks,
                  !.nodes = [n \in ids |-> NodeOf(n)] @@ d.nodes,
                  !.rels = d.rels \cup RelsOf(ls)]

SchemaOf(d) ==
    d.labels \cup (IF d.embedded # {} THEN {"Task.embedding"} ELSE {})

\* requests.get(import_url).json()['query']
ExtractQuery_split(j) == SubSeq(j.query, 1, 1)
ExtractQuery(j) == j.query

\* ------------------------------------------------------------- wrappers
NoSub ==
    [kind |-> "none", caller |-> "none", stage |-> "idle", query |-> "",
     docs |-> <<>>, cypher |-> "", context |-> "", result |-> "",
     calls |-> <<>>]

FirstStage(kind) == IF kind = "cypher" THEN "generate" ELSE "embed"

StartSub(kind, caller, q) ==
    [NoSub EXCEPT !.kind = kind, !.caller = caller, !.stage = FirstStage(kind),
                  !.query = q]

NoAgent ==
    [stage |-> "idle", input |-> "", iterations |-> 0, steps |-> <<>>,
     pending |-> [tool |-> "", input |-> "", raw |-> <<>>], planCalls |-> 0, toolRuns |-> 0,
     stop |-> "none", output |-> ""]

AgentActive == agent.stage \notin {"idle", "returned", "raised"}

\* ------------------------------------------------------------- failure
\* no cell has a try/except: an exception unwinds every frame of the cell
OnFailure_fed_back(a, s) ==
    IF s.caller = "agent"
    THEN [status |-> "running",
          agent |-> [a EXCEPT !.stage = "plan",
                              !.iterations = a.iterations + 1,
                              !.steps = Append(a.steps,
                                  [tool |-> a.pending.tool,
                                   input |-> a.pending.input,
                                   ran |-> a.pending.tool,
                                   observation |-> [query |-> "", result |-> "error"]])],
          sub |-> NoSub, running |-> running]
    ELSE [status |-> "failed",
          agent |-> IF a.stage = "idle" THEN a ELSE [a EXCEPT !.stage = "raised"],
          sub |-> s, running |-> {}]

OnFailure(a, s) ==
    [status |-> "failed",
     agent |-> IF a.stage \in {"idle", "returned"} THEN a
               ELSE [a EXCEPT !.stage = "raised"],
     sub |-> s, running |-> {}]

Raise(why) ==
    LET r == OnFailure(agent, sub)
    IN  /\ status' = r.status
        /\ agent' = r.agent
        /\ sub' = r.sub
        /\ running' = r.running
        /\ failures' = Append(failures, why)

FinishCell(c) ==
    /\ pc' = NextCell(c)
    /\ step' = "start"
    /\ running' = running \ {c}

StartCell(c) == running' = running \cup {c}

Live == status = "running"

\* ------------------------------------------------------------- Init
Init ==
    /\ pc = "connect"
    /\ step = "start"
    /\ running = {}
    /\ status = "running"
    /\ failures = <<>>
    /\ inflight = {}
    /\ conns = {}
    /\ graph = [created |-> FALSE, schema |-> {}, capturedAt |-> "none"]
    /\ db = EmptyDb
    /\ import_query = <<>>
    /\ loader = [fetches |-> 0, fetched |-> <<>>, queries |-> <<>>]
    /\ vector_index = [built |-> FALSE, batch |-> {}]
    /\ sub = NoSub
    /\ agent = NoAgent
    /\ response = [query |-> "", result |-> "", docs |-> <<>>]

\* ------------------------------------------------- cell: graph = Neo4jGraph(...)
\* the constructor opens the connection and reads the schema once
ConnectCall ==
    /\ Live /\ pc = "connect" /\ step = "start"
    /\ StartCell("connect")
    /\ conns' = conns \cup {GraphConn}
    /\ Issue(DbCall("schema", GraphConn, <<"CALL apoc.meta.data()">>))
    /\ step' = "schema_wait"
    /\ UNCHANGED <<pc, status, failures, graph, db, import_query, loader,
                   vector_index, sub, agent, response>>

ConnectReturn ==
    /\ Live /\ pc = "connect" /\ step = "schema_wait" /\ Sent("schema")
    /\ Complete(TheCall("schema"))
    /\ graph' = [created |-> TRUE, schema |-> SchemaOf(db),
                 capturedAt |-> "construct"]
    /\ FinishCell("connect")
    /\ UNCHANGED <<status, failures, conns, db, import_query, loader,
                   vector_index, sub, agent, response>>

\* ------------------------------------------------- cell: bulk data loader
LoadFetchCall ==
    /\ Live /\ pc = "load" /\ step = "start"
    /\ StartCell("load")
    /\ Issue(FetchCall("fetch"))
    /\ loader' = [loader EXCEPT !.fetches = @ + 1]
    /\ step' = "fetch_wait"
    /\ UNCHANGED <<pc, status, failures, conns, graph, db, import_query,
                   vector_index, sub, agent, response>>

LoadFetchReturn ==
    /\ Live /\ pc = "load" /\ step = "fetch_wait" /\ Sent("fetch")
    /\ \E j \in DatasetDefs :
         /\ import_query' = ExtractQuery(j)
         /\ loader' = [loader EXCEPT !.fetched = j.query]
    /\ Complete(TheCall("fetch"))
    /\ step' = "query"
    /\ UNCHANGED <<pc, running, status, failures, conns, graph, db,
                   vector_index, sub, agent, response>>

LoadQueryCall ==
    /\ Live /\ pc = "load" /\ step = "query"
    /\ Issue(DbCall("import", GraphConn, import_query))
    /\ loader' = [loader EXCEPT !.queries = Append(@, import_query)]
    /\ step' = "query_wait"
    /\ UNCHANGED <<pc, running, status, failures, conns, graph, db,
                   import_query, vector_index, sub, agent, response>>

LoadQueryReturn ==
    /\ Live /\ pc = "load" /\ step = "query_wait" /\ Sent("import")
    /\ db' = RunImport(db, TheCall("import").text)
    /\ Complete(TheCall("import"))
    /\ FinishCell("load")
    /\ UNCHANGED <<status, failures, conns, graph, import_query, loader,
                   vector_index, sub, agent, response>>

\* ------------------------------------------------- cell: vector index adapter
\* Neo4jVector.from_existing_graph: open the store's own connection, create
\* the index, fetch the Task nodes without an embedding, embed their text,
\* write the embeddings back
IndexPlan == <<"open", "create_index", "fetch", "embed", "persist">>

NodeLabel == "Task"                                        \* node_label
TextNodeProperties_reordered == <<"description", "name", "status">>
TextNodeProperties == <<"name", "description", "status">>  \* text_node_properties

Coalesce(v) == IF v = Null THEN "" ELSE v

\* the text the store builds for a node: one "property: value" line for each
\* of the given properties, in their order
TextEntries(node, props) ==
    [i \in 1..Len(props) |-> props[i] \o ": " \o Coalesce(node[props[i]])]

\* the embedding service is a function of the text it is given
EmbeddingOf(text) == <<"vector">> \o text

\* the nodes from_existing_graph still has to embed
FetchBatch_any_label(d) ==
    {n \in DOMAIN d.nodes : d.nodes[n].embedding = NoEmbedding}
FetchBatch(d) ==
    {n \in DOMAIN d.nodes :
        /\ d.nodes[n].label = NodeLabel
        /\ d.nodes[n].embedding = NoEmbedding
        /\ \E i \in 1..Len(TextNodeProperties) :
              d.nodes[n][TextNodeProperties[i]] # Null}

\* embedding_node_property='embedding': write the vectors of a batch
SetEmbeddings(d, batch) ==
    [d EXCEPT !.embedded = @ \cup batch,
              !.nodes = [n \in DOMAIN d.nodes |->
                           IF n \in batch
                           THEN [d.nodes[n] EXCEPT !.embedding =
                                    EmbeddingOf(TextEntries(d.nodes[n],
                                                            TextNodeProperties))]
                           ELSE d.nodes[n]]]

IndexPos(s) == CHOOSE i \in 1..Len(IndexPlan) : IndexPlan[i] = s

IndexRequest(s) ==
    CASE s = "open"         -> DbCall("open", VectorConn, <<"SHOW INDEXES">>)
      [] s = "create_index" -> DbCall("create_index", VectorConn, <<"CREATE VECTOR INDEX tasks">>)
      [] s = "fetch"        -> DbCall("fetch", VectorConn, <<"MATCH (n:Task) WHERE n.embedding IS null">>)
      [] s = "embed"        -> EmbedCall("embed", TextNodeProperties)
      [] s = "persist"      -> DbCall("persist", VectorConn, <<"SET n.embedding">>)

IndexCall ==
    /\ Live /\ pc = "index"
    /\ \E s \in {IndexPlan[i] : i \in 1..Len(IndexPlan)} :
         /\ step = (IF s = "open" THEN "start" ELSE s)
         /\ Issue(IndexRequest(s))
         /\ step' = s \o "_wait"
         /\ conns' = IF s = "open" THEN conns \cup {VectorConn} ELSE conns
         /\ running' = IF s = "open" THEN running \cup {"index"} ELSE running
    /\ UNCHANGED <<pc, status, failures, graph, db, import_query, loader,
                   vector_index, sub, agent, response>>

IndexReturn ==
    /\ Live /\ pc = "index"
    /\ \E s \in {IndexPlan[i] : i \in 1..Len(IndexPlan)} :
         /\ step = s \o "_wait" /\ Sent(s)
         /\ Complete(TheCall(s))
         /\ db' = CASE s = "create_index" -> [db EXCEPT !.index = TRUE]
                    [] s = "persist" -> SetEmbeddings(db, vector_index.batch)
                    [] OTHER -> db
         /\ vector_index' =
               CASE s = "fetch" ->
                      [vector_index EXCEPT !.batch = FetchBatch(db)]
                 [] s = "persist" ->
                      [vector_index EXCEPT !.built = TRUE, !.batch = {}]
                 [] OTHER -> vector_index
         /\ IF s = "persist"
            THEN FinishCell("index")
            ELSE /\ step' = IndexPlan[IndexPos(s) + 1]
                 /\ UNCHANGED <<pc, running>>
    /\ UNCHANGED <<status, failures, conns, graph, import_query, loader,
                   sub, agent, response>>

\* ------------------------------------------------- cells that call a wrapper
InvokeCell ==
    /\ Live /\ step = "start" /\ CellKind(pc) # "none"
    /\ StartCell(pc)
    /\ sub' = StartSub(CellKind(pc), "cell", Question(pc))
    /\ step' = "invoked"
    /\ UNCHANGED <<pc, status, failures, inflight, conns, graph, db,
                   import_query, loader, vector_index, agent, response>>

ReturnCell ==
    /\ Live /\ step = "invoked" /\ CellKind(pc) # "none"
    /\ sub.caller = "cell" /\ sub.stage = "done"
    /\ response' = [query |-> sub.query, result |-> sub.result,
                    docs |-> IF sub.kind = "search" THEN sub.docs ELSE <<>>]
    /\ sub' = NoSub
    /\ FinishCell(pc)
    /\ UNCHANGED <<status, failures, inflight, conns, graph, db, import_query,
                   loader, vector_index, agent>>

\* ------------------------------------------------- nearest-neighbour lookup
\* vector_index.similarity_search(query) and vector_index.as_retriever():
\* embed the query, then ask the index for the k nearest Task nodes
Min(a, b) == IF a < b THEN a ELSE b

RECURSIVE Ascending(_)
Ascending(S) ==
    IF S = {} THEN <<>>
    ELSE LET m == CHOOSE x \in S : \A y \in S : x <= y
         IN  <<m>> \o Ascending(S \ {m})

SearchK == DefaultK                  \* similarity_search(query) without k

\* the result lists the index may return for k neighbours
Neighbours(d, k) ==
    { Ascending(D) : D \in { E \in SUBSET d.embedded :
                               Cardinality(E) = Min(k, Cardinality(d.embedded)) } }

\* a returned document: its text is built from text_node_properties
Document(d, n) ==
    [id |-> n, page_content |-> TextEntries(d.nodes[n], TextNodeProperties)]

Documents(d, ds) == [i \in 1..Len(ds) |-> Document(d, ds[i])]

SubFrame == <<pc, step, running, status, failures, conns, graph, db,
              import_query, loader, vector_index, agent, response>>

\* the wrapper's own record of the calls it has sent
Noted(op, text) == [sub EXCEPT !.calls = Append(@, [op |-> op, text |-> text])]

RetrieveEmbedCall ==
    /\ Live /\ sub.kind \in {"search", "qa"} /\ sub.stage = "embed"
    /\ Issue(EmbedCall("embed_query", <<sub.query>>))
    /\ sub' = [Noted("embed_query", <<sub.query>>) EXCEPT !.stage = "embed_wait"]
    /\ UNCHANGED SubFrame

RetrieveEmbedReturn ==
    /\ Live /\ sub.stage = "embed_wait" /\ Sent("embed_query")
    /\ Complete(TheCall("embed_query"))
    /\ sub' = [sub EXCEPT !.stage = "lookup"]
    /\ UNCHANGED SubFrame

RetrieveLookupCall ==
    /\ Live /\ sub.stage = "lookup"
    /\ Issue(DbCall("lookup", VectorConn, <<sub.query>>))
    /\ sub' = [Noted("lookup", <<sub.query>>) EXCEPT !.stage = "lookup_wait"]
    /\ UNCHANGED SubFrame

RetrieveLookupReturn ==
    /\ Live /\ sub.stage = "lookup_wait" /\ Sent("lookup")
    /\ Complete(TheCall("lookup"))
    /\ \E ds \in Neighbours(db, SearchK) :
         sub' = [sub EXCEPT !.docs = Documents(db, ds),
                            !.stage = IF sub.kind = "search" THEN "done" ELSE "llm"]
    /\ UNCHANGED SubFrame

\* ------------------------------------------------- vector_qa.invoke
Answers == {"answer A", "answer B"}

\* chain_type="stuff": every retrieved document is put into the prompt
StuffedDocuments_none(s) == <<>>
StuffedDocuments(s) == s.docs

QaLlmCall ==
    /\ Live /\ sub.kind = "qa" /\ sub.stage = "llm"
    /\ Issue(LlmCall("answer_synthesis", vector_qa_llm, <<sub.query>>, {},
                     StuffedDocuments(sub), <<>>))
    /\ sub' = [Noted("answer_synthesis", <<sub.query>>) EXCEPT !.stage = "llm_wait"]
    /\ UNCHANGED SubFrame

QaLlmReturn ==
    /\ Live /\ sub.stage = "llm_wait" /\ Sent("answer_synthesis")
    /\ Complete(TheCall("answer_synthesis"))
    /\ \E a \in Answers : sub' = [sub EXCEPT !.result = a, !.stage = "done"]
    /\ UNCHANGED SubFrame

\* ------------------------------------------------- cypher_chain.invoke
Cyphers == {"MATCH (t:Task) RETURN count(t)", "MATCH (m:Microservice) RETURN m",
            "MATCH (t:Task RETURN"}
Malformed == {"MATCH (t:Task RETURN"}
Contexts == {"[]", "[rows]"}

\* the statement the chain hands to graph.query
CypherToRun_question(s) == s.query
CypherToRun(s) == s.cypher

CypherGenCall ==
    /\ Live /\ sub.kind = "cypher" /\ sub.stage = "generate"
    /\ Issue(LlmCall("query_generation", cypher_llm, <<sub.query>>,
                     graph.schema, <<>>, <<>>))
    /\ sub' = [Noted("query_generation", <<sub.query>>) EXCEPT !.stage = "generate_wait"]
    /\ UNCHANGED SubFrame

CypherGenReturn ==
    /\ Live /\ sub.stage = "generate_wait" /\ Sent("query_generation")
    /\ Complete(TheCall("query_generation"))
    /\ \E c \in Cyphers : sub' = [sub EXCEPT !.cypher = c, !.stage = "execute"]
    /\ UNCHANGED SubFrame

CypherExecCall ==
    /\ Live /\ sub.kind = "cypher" /\ sub.stage = "execute"
    /\ Issue(DbCall("generated", GraphConn, <<CypherToRun(sub)>>))
    /\ sub' = [Noted("generated", <<CypherToRun(sub)>>) EXCEPT !.stage = "execute_wait"]
    /\ UNCHANGED SubFrame

CypherExecReturn ==
    /\ Live /\ sub.stage = "execute_wait" /\ Sent("generated")
    /\ TheCall("generated").text[1] \notin Malformed
    /\ Complete(TheCall("generated"))
    /\ \E x \in Contexts : sub' = [sub EXCEPT !.context = x, !.stage = "phrase"]
    /\ UNCHANGED SubFrame

CypherPhraseCall ==
    /\ Live /\ sub.kind = "cypher" /\ sub.stage = "phrase"
    /\ Issue(LlmCall("result_phrasing", qa_llm, <<sub.query, sub.context>>, {},
                     <<>>, <<>>))
    /\ sub' = [Noted("result_phrasing", <<sub.query, sub.context>>) EXCEPT !.stage = "phrase_wait"]
    /\ UNCHANGED SubFrame

CypherPhraseReturn ==
    /\ Live /\ sub.stage = "phrase_wait" /\ Sent("result_phrasing")
    /\ Complete(TheCall("result_phrasing"))
    /\ \E a \in Answers : sub' = [sub EXCEPT !.result = a, !.stage = "done"]
    /\ UNCHANGED SubFrame

\* ------------------------------------------------- cells: graph.query / refresh
CountCall ==
    /\ Live /\ pc = "count" /\ step = "start"
    /\ StartCell("count")
    /\ Issue(DbCall("count", GraphConn,
                    <<"MATCH (t:Task {status:'open'}) RETURN count(*)">>))
    /\ step' = "count_wait"
    /\ UNCHANGED <<pc, status, failures, conns, graph, db, import_query,
                   loader, vector_index, sub, agent, response>>

CountReturn ==
    /\ Live /\ pc = "count" /\ step = "count_wait" /\ Sent("count")
    /\ Complete(TheCall("count"))
    /\ \E x \in Contexts :
         response' = [query |-> TheCall("count").text[1], result |-> x,
                      docs |-> <<>>]
    /\ FinishCell("count")
    /\ UNCHANGED <<status, failures, conns, graph, db, import_query, loader,
                   vector_index, sub, agent>>

\* graph.refresh_schema(): the graph object takes the schema the database has now
RefreshedSchema_stale(g, d) == g
RefreshedSchema(g, d) ==
    [g EXCEPT !.schema = SchemaOf(d), !.capturedAt = "refresh"]

RefreshCall ==
    /\ Live /\ pc = "refresh" /\ step = "start"
    /\ StartCell("refresh")
    /\ Issue(DbCall("refresh_schema", GraphConn, <<"CALL apoc.meta.data()">>))
    /\ step' = "refresh_wait"
    /\ UNCHANGED <<pc, status, failures, conns, graph, db, import_query,
                   loader, vector_index, sub, agent, response>>

RefreshReturn ==
    /\ Live /\ pc = "refresh" /\ step = "refresh_wait" /\ Sent("refresh_schema")
    /\ Complete(TheCall("refresh_schema"))
    /\ graph' = RefreshedSchema(graph, db)
    /\ FinishCell("refresh")
    /\ UNCHANGED <<status, failures, conns, db, import_query, loader,
                   vector_index, sub, agent, response>>

\* ------------------------------------------------- agent_executor.invoke
AgentTools == {"Tasks", "Graph"}               \* tools = [Tool(name="Tasks"), Tool(name="Graph")]
ModelToolNames == AgentTools \cup {"Search"}   \* names the model may write after "Action:"

\* Tool(name="Tasks", func=vector_qa.invoke), Tool(name="Graph", func=cypher_chain.invoke)
ToolKind_swapped(t) == IF t = "Tasks" THEN "cypher" ELSE "qa"
ToolKind(t) == IF t = "Tasks" THEN "qa" ELSE "cypher"

\* texts the model may write after "Action Input:", as the pieces they are
\* made of: the bare question, a JSON object around it, the question in quotes
ActionInputs(q) ==
    { <<q>>, <<"{\"query\": \"" \o q \o "\"}">>, <<"\"", q, "\"">> }

RECURSIVE Join(_)
Join(ts) == IF ts = <<>> THEN "" ELSE Head(ts) \o Join(Tail(ts))

RECURSIVE StripLeft(_, _)
StripLeft(ts, chars) ==
    IF ts # <<>> /\ Head(ts) \in chars THEN StripLeft(Tail(ts), chars) ELSE ts

RECURSIVE StripRight(_, _)
StripRight(ts, chars) ==
    IF ts # <<>> /\ ts[Len(ts)] \in chars
    THEN StripRight(SubSeq(ts, 1, Len(ts) - 1), chars)
    ELSE ts

Strip(ts, chars) == StripRight(StripLeft(ts, chars), chars)

\* the ReAct output parser of create_react_agent: the text after
\* "Action Input:" without the spaces and then the double quotes around it
ParseActionInput(raw) == Join(Strip(Strip(raw, {" "}), {"\""}))

\* the single argument the executor calls the tool's func with
ToolQuestion_user(a) == a.input
ToolQuestion(a) == a.pending.input

\* what one answer of the model parses to
PlanOutputs(q) ==
    { [kind |-> "action", tool |-> t, input |-> i, output |-> ""] :
          t \in ModelToolNames, i \in ActionInputs(q) }
    \cup { [kind |-> "finish", tool |-> "", input |-> <<>>, output |-> a] :
          a \in Answers }

\* AgentExecutor(max_iterations=2): the loop condition
ShouldContinue_unbounded(i) == TRUE
ShouldContinue_inclusive(i) == i <= MaxIterations
ShouldContinue(i) == i < MaxIterations

\* {agent_scratchpad}: the steps taken so far, with their observations
Scratchpad(a) == a.steps

StoppedOutput == "Agent stopped due to iteration limit or time limit."

AgentFrame == <<pc, step, running, status, failures, conns, graph, db,
                import_query, loader, vector_index, response>>

AgentInvoke ==
    /\ Live /\ pc \in {"agent1", "agent2"} /\ step = "start"
    /\ StartCell(pc)
    /\ agent' = [NoAgent EXCEPT !.stage = "plan", !.input = Question(pc)]
    /\ step' = "invoked"
    /\ UNCHANGED <<pc, status, failures, inflight, conns, graph, db,
                   import_query, loader, vector_index, sub, response>>

AgentPlanCall ==
    /\ Live /\ agent.stage = "plan"
    /\ ShouldContinue(agent.iterations)
    /\ Len(agent.steps) < MaxSteps
    /\ Issue(LlmCall("action_selection", llm, <<agent.input>>, {}, <<>>,
                     Scratchpad(agent)))
    /\ agent' = [agent EXCEPT !.stage = "plan_wait", !.planCalls = @ + 1]
    /\ UNCHANGED <<sub>> /\ UNCHANGED AgentFrame

AgentPlanReturn ==
    /\ Live /\ agent.stage = "plan_wait" /\ Sent("action_selection")
    /\ Complete(TheCall("action_selection"))
    /\ \E out \in PlanOutputs(agent.input) :
         agent' = IF out.kind = "finish"
                  THEN [agent EXCEPT !.stage = "finished", !.stop = "final",
                                     !.output = out.output]
                  ELSE [agent EXCEPT !.stage = "tool",
                                     !.pending =
                                         [tool |-> out.tool,
                                          input |-> ParseActionInput(out.input),
                                          raw |-> out.input]]
    /\ UNCHANGED <<sub>> /\ UNCHANGED AgentFrame

\* the chosen name is one of the tools: run the wrapper bound to it
AgentRunTool ==
    /\ Live /\ agent.stage = "tool" /\ agent.pending.tool \in AgentTools
    /\ sub' = StartSub(ToolKind(agent.pending.tool), "agent", ToolQuestion(agent))
    /\ agent' = [agent EXCEPT !.stage = "tool_wait", !.toolRuns = @ + 1]
    /\ UNCHANGED <<inflight>> /\ UNCHANGED AgentFrame

\* the chosen name is no tool: the executor answers with a notice instead
AgentInvalidTool ==
    /\ Live /\ agent.stage = "tool" /\ agent.pending.tool \notin AgentTools
    /\ agent' = [agent EXCEPT
           !.stage = "plan",
           !.iterations = @ + 1,
           !.steps = Append(@, [tool |-> agent.pending.tool,
                                input |-> agent.pending.input,
                                ran |-> "invalid_tool",
                                observation |->
                                    [query |-> "",
                                     result |-> "not a valid tool, try one of [Tasks, Graph]"]])]
    /\ UNCHANGED <<inflight, sub>> /\ UNCHANGED AgentFrame

AgentObserve ==
    /\ Live /\ agent.stage = "tool_wait"
    /\ sub.caller = "agent" /\ sub.stage = "done"
    /\ agent' = [agent EXCEPT
           !.stage = "plan",
           !.iterations = @ + 1,
           !.steps = Append(@, [tool |-> agent.pending.tool,
                                input |-> agent.pending.input,
                                ran |-> IF sub.kind = "qa" THEN "Tasks" ELSE "Graph",
                                observation |-> [query |-> sub.query,
                                                 result |-> sub.result]])]
    /\ sub' = NoSub
    /\ UNCHANGED <<inflight>> /\ UNCHANGED AgentFrame

\* the cap is reached: return the fixed text, without another model call
AgentStopped ==
    /\ Live /\ agent.stage = "plan"
    /\ ~ShouldContinue(agent.iterations)
    /\ agent' = [agent EXCEPT !.stage = "finished", !.stop = "cap",
                              !.output = StoppedOutput]
    /\ UNCHANGED <<inflight, sub>> /\ UNCHANGED AgentFrame

AgentReturn ==
    /\ Live /\ agent.stage = "finished" /\ step = "invoked"
    /\ response' = [query |-> agent.input, result |-> agent.output, docs |-> <<>>]
    /\ agent' = [NoAgent EXCEPT !.stage = "returned", !.stop = agent.stop]
    /\ FinishCell(pc)
    /\ UNCHANGED <<status, failures, inflight, conns, graph, db, import_query,
                   loader, vector_index, sub>>

\* ------------------------------------------------- failures
RaiseFrame == <<pc, step, conns, graph, db, import_query, loader,
                vector_index, response>>

\* a remote call ends in an error instead of an answer
RemoteFailure ==
    /\ Live
    /\ \E c \in inflight : Complete(c)
    /\ Raise("remote call failed")
    /\ UNCHANGED RaiseFrame

\* the graph database rejects a generated statement it cannot parse
CypherRejected ==
    /\ Live /\ sub.stage = "execute_wait" /\ Sent("generated")
    /\ TheCall("generated").text[1] \in Malformed
    /\ Complete(TheCall("generated"))
    /\ Raise("statement rejected")
    /\ UNCHANGED RaiseFrame

\* the model's answer is neither an action nor a final answer
AgentParseError ==
    /\ Live /\ agent.stage = "plan_wait" /\ Sent("action_selection")
    /\ Complete(TheCall("action_selection"))
    /\ Raise("output not parsable")
    /\ UNCHANGED RaiseFrame

Next ==
    \/ ConnectCall \/ ConnectReturn
    \/ LoadFetchCall \/ LoadFetchReturn \/ LoadQueryCall \/ LoadQueryReturn
    \/ IndexCall \/ IndexReturn
    \/ InvokeCell \/ ReturnCell
    \/ RetrieveEmbedCall \/ RetrieveEmbedReturn
    \/ RetrieveLookupCall \/ RetrieveLookupReturn
    \/ QaLlmCall \/ QaLlmReturn
    \/ CypherGenCall \/ CypherGenReturn \/ CypherExecCall \/ CypherExecReturn
    \/ CypherPhraseCall \/ CypherPhraseReturn
    \/ CountCall \/ CountReturn \/ RefreshCall \/ RefreshReturn
    \/ AgentInvoke \/ AgentPlanCall \/ AgentPlanReturn \/ AgentRunTool
    \/ AgentInvalidTool \/ AgentObserve \/ AgentStopped \/ AgentReturn
    \/ RemoteFailure \/ CypherRejected \/ AgentParseError

Spec == Init /\ [][Next]_vars

\* every step that can be taken is eventually taken: a cell that is running
\* keeps running, and a remote call that was sent is eventually answered
LiveSpec == Init /\ [][Next]_vars /\ WF_vars(Next)

\* ======================================================= properties
\* C1: every agent_executor.invoke that has started eventually stops: it
\* returns because the model gave a final answer or because the iteration
\* cap was reached (or a remote call failed and the failure ended the cell).
AgentTerminates ==
    AgentActive ~> \/ agent.stage = "returned" /\ agent.stop \in {"final", "cap"}
                   \/ status = "failed"

AgentStoppedByCap ==
    agent.stage = "returned" /\ agent.stop = "cap" /\ pc = "done"

\* C2: one agent_executor.invoke never asks the model for an action more than
\* max_iterations times and never runs more than max_iterations tools; when
\* the cap is reached the call returns the fixed text and the model is not
\* asked again.
CapRespected ==
    /\ agent.planCalls <= MaxIterations
    /\ agent.toolRuns <= MaxIterations
    /\ agent.iterations <= MaxIterations
    /\ agent.iterations = MaxIterations =>
          /\ ~Sent("action_selection")
          /\ agent.stage \in {"plan", "finished"}
          /\ agent.planCalls = MaxIterations
    /\ agent.stage = "finished" /\ agent.stop = "cap" =>
          /\ agent.iterations = MaxIterations
          /\ agent.output = StoppedOutput

CapReachedAfterTwoTools ==
    /\ agent.stage = "finished" /\ agent.stop = "cap"
    /\ agent.toolRuns = 2 /\ agent.planCalls = 2

\* C3: the notebook runs strictly sequentially: at most one cell is running,
\* at most one remote call is in flight, and a cell starts only when no call
\* of an earlier cell is still in flight.
Sequential ==
    /\ Cardinality(running) <= 1
    /\ Cardinality(inflight) <= 1
    /\ running \subseteq {pc}
    /\ inflight # {} => running = {pc}
    /\ step = "start" => inflight = {} /\ running = {}

SecondCellWaiting ==
    pc = "load" /\ running = {"load"} /\ Sent("import") /\ graph.created

\* C4 as stated: there is one graph-database connection object and every
\* query goes through it.
SingleConnection ==
    /\ Cardinality(conns) <= 1
    /\ \A c \in inflight : c.svc = "graphdb" => c.conn = "graph"

\* C4 amended: there are exactly two connection objects, the one of graph and
\* the one the vector index opens for itself; bulk load, count, schema and
\* generated queries use the first, index building and nearest-neighbour
\* lookup the second.
TwoConnections ==
    /\ conns \subseteq {"graph", "vector_index"}
    /\ vector_index.built => conns = {"graph", "vector_index"}
    /\ \A c \in inflight :
          /\ c.svc = "graphdb" /\ c.op \in {"schema", "import", "count",
                                           "refresh_schema", "generated"}
                => c.conn = "graph"
          /\ c.svc = "graphdb" /\ c.op \in {"open", "create_index", "fetch",
                                           "persist", "lookup"}
                => c.conn = "vector_index"
          /\ c.svc = "graphdb" => c.conn \in conns

LookupOnOwnConnection ==
    Sent("lookup") /\ TheCall("lookup").conn = "vector_index" /\ "graph" \in conns

\* C5: the loader fetches the dataset definition once and submits one query,
\* whose text is the fetched bulk query unchanged.
LoadedVerbatim ==
    /\ loader.fetches <= 1
    /\ Len(loader.queries) <= 1
    /\ \A i \in 1..Len(loader.queries) : loader.queries[i] = loader.fetched
    /\ \A c \in inflight : c.op = "import" => c.text = loader.fetched
    /\ pc \notin {"connect", "load"} =>
          loader.fetches = 1 /\ Len(loader.queries) = 1

LoadedThreeStatements ==
    pc = "index" /\ Len(loader.queries) = 1 /\ Len(loader.fetched) = 3
    /\ "Microservice" \in db.labels

\* C6: a cypher_chain.invoke sends, in this order and each only after the
\* one before has returned, one model call with the question and the schema,
\* one execution of exactly the statement that call produced, and one model
\* call that phrases the result.
CypherInOrder ==
    sub.kind = "cypher" =>
      LET n == Len(sub.calls)
          order == <<"query_generation", "generated", "result_phrasing">>
      IN  /\ n <= 3
          /\ \A i \in 1..n : sub.calls[i].op = order[i]
          /\ n >= 1 => sub.calls[1].text = <<sub.query>>
          /\ n >= 2 => sub.cypher \in Cyphers /\ sub.calls[2].text = <<sub.cypher>>
          /\ n >= 3 => sub.context \in Contexts
                       /\ sub.calls[3].text = <<sub.query, sub.context>>
          /\ sub.stage = "done" => n = 3 /\ sub.result \in Answers
          /\ \A c \in inflight :
                /\ n >= 1 /\ c.op = sub.calls[n].op /\ c.text = sub.calls[n].text
                /\ c.op = "query_generation" => c.schema = graph.schema

CypherAnswered ==
    sub.kind = "cypher" /\ sub.caller = "cell" /\ sub.stage = "done"

\* C7 as stated: every model call uses the same model name and the same
\* temperature (those of the agent's client).
SameModelEverywhere ==
    \A c \in inflight :
        c.svc = "llm" => c.model = llm.model /\ c.temperature = llm.temperature

\* C7 amended: action selection and query generation use llama-3.1-70b-versatile
\* at temperature 0; answer synthesis in vector_qa uses that model at the
\* client's default temperature; result phrasing in the cypher chain uses
\* temperature 0 with the client's default model.
ModelByPurpose ==
    \A c \in inflight :
        c.svc = "llm" =>
          /\ c.op \in {"action_selection", "query_generation", "answer_synthesis",
                       "result_phrasing"}
          /\ c.op \in {"action_selection", "query_generation"} =>
                c.model = "llama-3.1-70b-versatile" /\ c.temperature = "0"
          /\ c.op = "answer_synthesis" =>
                /\ c.model = "llama-3.1-70b-versatile"
                /\ c.temperature = GroqDefaultTemperature
          /\ c.op = "result_phrasing" =>
                c.model = GroqDefaultModel /\ c.temperature = "0"

PhrasingOnDefaultModel ==
    Sent("result_phrasing") /\ TheCall("result_phrasing").model # LlamaModel

\* C8: a failing remote call is neither caught nor retried: the step in which
\* it fails ends the run in failure, produces no result, adds no observation
\* to the agent's scratchpad, and nothing is executed afterwards.
FailurePropagates ==
    [][ /\ status # "failed"
        /\ Len(failures') > Len(failures) =>
              /\ status' = "failed"
              /\ response' = response
              /\ agent'.steps = agent.steps
              /\ ~AgentActive'
              /\ inflight' = {}
              /\ running' = {}
              /\ pc' = pc ]_vars

FailedInsideAgentTool ==
    /\ status = "failed" /\ agent.stage = "raised"
    /\ sub.caller = "agent" /\ sub.stage = "execute_wait"
    /\ Len(failures) = 1

\* C9: a lookup in the vector index with default settings returns three
\* documents.
ThreeDocuments ==
    sub.kind \in {"search", "qa"} /\ sub.stage \in {"done", "llm", "llm_wait"}
        => Len(sub.docs) = 3

\* C10 as stated: every iteration of the agent loop executes one of the two
\* named tools.
EveryIterationRunsNamedTool ==
    /\ \A i \in 1..Len(agent.steps) : agent.steps[i].ran \in {"Tasks", "Graph"}
    /\ agent.toolRuns =
          agent.iterations + (IF sub.caller = "agent" THEN 1 ELSE 0)

\* C10 amended: an iteration in which the model names Tasks or Graph executes
\* exactly that tool (Tasks is vector_qa.invoke, Graph is cypher_chain.invoke);
\* an iteration in which it names anything else executes neither and feeds
\* back a notice; every observation is in the input of the next model call;
\* the agent executes nothing but the two wrappers.
ToolsAsNamed ==
    LET named == {i \in 1..Len(agent.steps) :
                     agent.steps[i].tool \in {"Tasks", "Graph"}}
    IN  /\ Len(agent.steps) = agent.iterations
        /\ \A i \in 1..Len(agent.steps) :
              /\ i \in named =>
                    /\ agent.steps[i].ran = agent.steps[i].tool
                    /\ agent.steps[i].observation.query = agent.steps[i].input
                    /\ agent.steps[i].observation.result \in Answers
              /\ i \notin named => agent.steps[i].ran = "invalid_tool"
        /\ agent.toolRuns =
              Cardinality(named) + (IF sub.caller = "agent" THEN 1 ELSE 0)
        /\ agent.stage = "tool_wait" => sub.caller = "agent"
        /\ sub.caller = "agent" =>
              /\ agent.stage \in {"tool_wait", "raised"}
              /\ agent.pending.tool \in {"Tasks", "Graph"}
              /\ sub.kind = (IF agent.pending.tool = "Tasks" THEN "qa" ELSE "cypher")
              /\ sub.query = agent.pending.input
        /\ \A c \in inflight :
              c.op = "action_selection" => c.scratchpad = agent.steps

ObservationFedBack ==
    /\ Sent("action_selection")
    /\ Len(TheCall("action_selection").scratchpad) = 1
    /\ agent.steps[1].ran = "Graph"

\* C11: a vector_qa.invoke embeds the question, does one nearest-neighbour
\* lookup and then one model call whose prompt holds the retrieved documents;
\* the model call is sent only after the lookup has returned, and no step of
\* the invocation changes the graph.
QaInOrder ==
    sub.kind = "qa" =>
      LET n == Len(sub.calls)
          order == <<"embed_query", "lookup", "answer_synthesis">>
      IN  /\ n <= 3
          /\ \A i \in 1..n : sub.calls[i].op = order[i]
          /\ n <= 2 => sub.stage \notin {"llm_wait", "done"}
          /\ n = 3 => sub.stage \in {"llm_wait", "done"} /\ sub.docs # <<>>
          /\ sub.stage = "done" => n = 3 /\ sub.result \in Answers
          /\ \A c \in inflight :
                /\ n >= 1 /\ c.op = sub.calls[n].op
                /\ c.svc = "graphdb" => c.op = "lookup"
                /\ c.op = "answer_synthesis" => c.docs = sub.docs

QaReadsThenAsks ==
    [][ /\ QaInOrder'
        /\ (sub.kind = "qa" \/ sub'.kind = "qa") => db' = db ]_vars

QaAsksWithDocuments ==
    /\ sub.kind = "qa" /\ sub.caller = "cell" /\ Sent("answer_synthesis")
    /\ Len(TheCall("answer_synthesis").docs) = 4

\* C12: building the vector index writes the property 'embedding' of Task
\* nodes and nothing else: the vector is computed from name, description and
\* status, those three properties, the nodes of other labels and the
\* relationships stay as they were, and a nearest-neighbour lookup is sent
\* only once the index has been built.
IndexTouchesTaskEmbeddingsOnly ==
    [][ /\ pc = "index" =>
              /\ DOMAIN db'.nodes = DOMAIN db.nodes
              /\ db'.rels = db.rels
              /\ \A n \in DOMAIN db.nodes :
                    /\ db'.nodes[n] =
                          [db.nodes[n] EXCEPT !.embedding = db'.nodes[n].embedding]
                    /\ db.nodes[n].label # "Task" => db'.nodes[n] = db.nodes[n]
                    /\ db'.nodes[n].embedding # db.nodes[n].embedding =>
                          db'.nodes[n].embedding =
                             <<"vector",
                               "name: " \o db.nodes[n].name,
                               "description: " \o db.nodes[n].description,
                               "status: " \o db.nodes[n].status>>
        /\ vector_index'.built =>
              \A n \in DOMAIN db'.nodes :
                  db'.nodes[n].label = "Task" <=> db'.nodes[n].embedding # <<>>
        /\ (\E c \in inflight' : c.op = "lookup") =>
              vector_index'.built /\ pc' \notin {"connect", "load", "index"}
      ]_vars

TasksEmbeddedTeamsUntouched ==
    /\ vector_index.built /\ pc = "search"
    /\ db.nodes[1].embedding # <<>>
    /\ 201 \in DOMAIN db.nodes /\ db.nodes[201].embedding = <<>>
    /\ db.rels # {}

\* C13: the text of every document a lookup returns is made of exactly the
\* properties name, description and status of a Task node, in that order, one
\* "property: value" line each, and has no line for the embedding.
DocumentsListTextProperties ==
    \A i \in 1..Len(sub.docs) :
        /\ Len(sub.docs[i].page_content) = 3
        /\ \E n \in DOMAIN db.nodes :
              /\ db.nodes[n].label = "Task"
              /\ sub.docs[i].page_content =
                    <<"name: " \o db.nodes[n].name,
                      "description: " \o db.nodes[n].description,
                      "status: " \o db.nodes[n].status>>

SearchReturnedDocuments ==
    /\ sub.kind = "search" /\ sub.stage = "done" /\ Len(sub.docs) = 4
    /\ sub.docs[1].page_content[1] = "name: Task1"

\* C14: the schema every cypher_chain.invoke sends to the model is the one
\* graph.refresh_schema() captured after the bulk load and the index build,
\* never the one read when the connection object was created.
GenerationUsesRefreshedSchema ==
    \A c \in inflight :
        c.op = "query_generation" =>
          /\ graph.capturedAt = "refresh"
          /\ c.schema = db.labels \cup {"Task.embedding"}
          /\ "Task" \in c.schema
          /\ vector_index.built /\ loader.queries # <<>>

AgentGenerationSeesEmbedding ==
    /\ Sent("query_generation") /\ sub.caller = "agent"
    /\ "Task.embedding" \in TheCall("query_generation").schema

\* C15 as stated: the wrapper is called with the whole Action Input text the
\* model wrote, unchanged.
WholeActionInputPassed ==
    sub.caller = "agent" => sub.query = Join(agent.pending.raw)

\* C15 amended: the wrapper is called with the Action Input text without the
\* spaces and double quotes around it, and the 'query' of its result is that
\* text, whether or not it is the user's input.
UnquotedText(raw) ==
    IF Len(raw) = 3 /\ raw[1] = "\"" /\ raw[3] = "\"" THEN raw[2] ELSE raw[1]

ParsedActionInputPassed ==
    /\ sub.caller = "agent" =>
          /\ agent.pending.raw \in ActionInputs(agent.input)
          /\ sub.query = UnquotedText(agent.pending.raw)
    /\ \A i \in 1..Len(agent.steps) :
          agent.steps[i].ran \in {"Tasks", "Graph"} =>
             /\ agent.steps[i].observation.query = agent.steps[i].input
             /\ agent.steps[i].input \in
                   {UnquotedText(r) : r \in ActionInputs(agent.input)}

WrappedInputInObservation ==
    /\ Len(agent.steps) >= 1
    /\ agent.steps[1].ran = "Tasks"
    /\ agent.steps[1].observation.query # agent.input
====
